---- MODULE Spec2Model ----
(***************************************************************************)
(* cfplot: collection of CloudFormation stack events (root stack and its   *)
(* nested stacks) and reconstruction of a per-resource creation timeline.  *)
(* Source: src/cfplot.py                                                   *)
(***************************************************************************)
EXTENDS Integers, Sequences, FiniteSets, TLC

VARIABLES
    provider,          \* the event API: stack -> [found, events as delivered]
    arg,               \* the stackname main was started with
    pc,                \* main's position
    frames,            \* call stack of retrieve_cf_events (innermost frame last)
    processed_stacks,  \* the set shared through the recursion
    fetched,           \* identifiers handed to describe_stack_events, in order
    events,            \* the list main received from retrieve_cf_events
    log,               \* warnings and errors recorded so far
    data,              \* the OrderedDict stack_name -> logical_id -> timing record
    ev,                \* the event most recently folded by update_data_for_event
    nfold,             \* number of events folded so far
    traced,            \* process_events' local set of stack_identifier
    traces,            \* the traces added to the figure, in order
    shown              \* fig.show() was reached

vars == <<provider, arg, pc, frames, processed_stacks, fetched, events, log,
          data, ev, nfold, traced, traces, shown>>

-----------------------------------------------------------------------------
(* Bounds *)

\* timestamps used by the standalone fold are 1..MaxT
MaxT == 3
\* number of events the standalone fold consumes
MaxFold == 4

-----------------------------------------------------------------------------
(* Values *)

\* Python's None (timestamps and durations are integers here)
None == -999

CREATE_IN_PROGRESS == "CREATE_IN_PROGRESS"
CREATE_COMPLETE == "CREATE_COMPLETE"
CREATE_FAILED == "CREATE_FAILED"
StackType == "AWS::CloudFormation::Stack"
BucketType == "AWS::S3::Bucket"

\* str.lower() on the status reasons that occur
Lower(s) ==
    CASE s = "User Initiated" -> "user initiated"
      [] s = "Resource creation initiated" -> "resource creation initiated"
      [] OTHER -> s

\* dict.get(key, default)
Get(d, key, default) == IF key \in DOMAIN d THEN d[key] ELSE default

\* an event record; the ResourceStatusReason key is absent unless added
Event(id, stack, logical, type, status, phys, ts) ==
    [EventId |-> id, StackName |-> stack, LogicalResourceId |-> logical,
     ResourceType |-> type, ResourceStatus |-> status,
     PhysicalResourceId |-> phys, Timestamp |-> ts]

WithReason(e, r) == e @@ [ResourceStatusReason |-> r]

Range(s) == {s[k] : k \in 1..Len(s)}

\* value of ev before anything was folded
NoEvent == [Timestamp |-> 0]

-----------------------------------------------------------------------------
(* update_data_for_event *)

NewRecord ==
    [identified |-> None, start |-> None, end |-> None,
     duration |-> None, duration_i2s |-> None, duration_s2e |-> None]

EmptyData == [keys |-> <<>>, recs |-> <<>>]

\* OnCreateInProgress with the last branch re-stamping identified on every sighting
OnCreateInProgress_Restamp(rd, reason, ts) ==
    IF reason = "user initiated"
    THEN [rd EXCEPT !.identified = ts, !.start = ts]
    ELSE IF reason = "resource creation initiated"
    THEN [rd EXCEPT !.identified = IF rd.identified = None THEN ts ELSE @,
                    !.start = ts]
    ELSE [rd EXCEPT !.identified = ts]

\* the CREATE_IN_PROGRESS branch
OnCreateInProgress(rd, reason, ts) ==
    IF reason = "user initiated"
    THEN [rd EXCEPT !.identified = ts, !.start = ts]
    ELSE IF reason = "resource creation initiated"
    THEN [rd EXCEPT !.identified = IF rd.identified = None THEN ts ELSE @,
                    !.start = ts]
    ELSE [rd EXCEPT !.identified = IF rd.identified = None THEN ts ELSE @]

\* OnCreateComplete with the total measured from start instead of identified
OnCreateComplete_TotalFromStart(rd, ts) ==
    LET r1 == [rd EXCEPT !.end = ts]
    IN  IF r1.identified # None /\ r1.start # None /\ r1.end # None
        THEN [r1 EXCEPT !.duration_i2s = r1.start - r1.identified,
                        !.duration_s2e = r1.end - r1.start,
                        !.duration = r1.end - r1.start]
        ELSE r1

\* OnCreateComplete that substitutes identified for a missing start
OnCreateComplete_FabricateStart(rd, ts) ==
    LET r1 == [rd EXCEPT !.end = ts]
        st == IF r1.start = None THEN r1.identified ELSE r1.start
    IN  IF r1.identified # None /\ r1.end # None
        THEN [r1 EXCEPT !.duration_i2s = st - r1.identified,
                        !.duration_s2e = r1.end - st,
                        !.duration = r1.end - r1.identified]
        ELSE r1

\* the CREATE_COMPLETE branch
OnCreateComplete(rd, ts) ==
    LET r1 == [rd EXCEPT !.end = ts]
    IN  IF r1.identified # None /\ r1.start # None /\ r1.end # None
        THEN [r1 EXCEPT !.duration_i2s = r1.start - r1.identified,
                        !.duration_s2e = r1.end - r1.start,
                        !.duration = r1.end - r1.identified]
        ELSE r1

UpdateRecord(rd, status, reason, ts) ==
    IF status = CREATE_IN_PROGRESS THEN OnCreateInProgress(rd, reason, ts)
    ELSE IF status = CREATE_COMPLETE THEN OnCreateComplete(rd, ts)
    ELSE rd

\* update_data_for_event with every resource of the timeline sharing one record
\* object, so that an update shows in all of them
update_data_for_event_SharedRecord(event, d) ==
    LET p == <<event.StackName, event.LogicalResourceId>>
        keys1 == IF event.StackName \in Range(d.keys) THEN d.keys
                 ELSE Append(d.keys, event.StackName)
        old == IF p \in DOMAIN d.recs THEN d.recs[p] ELSE NewRecord
        new == UpdateRecord(old, event.ResourceStatus,
                            Lower(Get(event, "ResourceStatusReason", "")),
                            event.Timestamp)
    IN  [keys |-> keys1,
         recs |-> [q \in (DOMAIN d.recs) \cup {p} |-> new]]

update_data_for_event(event, d) ==
    LET stack_name == event.StackName
        logical_resource_id == event.LogicalResourceId
        resource_status == event.ResourceStatus
        resource_status_reason == Lower(Get(event, "ResourceStatusReason", ""))
        timestamp == event.Timestamp
        p == <<stack_name, logical_resource_id>>
        keys1 == IF stack_name \in Range(d.keys) THEN d.keys
                 ELSE Append(d.keys, stack_name)
        old == IF p \in DOMAIN d.recs THEN d.recs[p] ELSE NewRecord
        new == UpdateRecord(old, resource_status, resource_status_reason, timestamp)
    IN  [keys |-> keys1,
         recs |-> [q \in (DOMAIN d.recs) \cup {p} |->
                      IF q = p THEN new ELSE d.recs[q]]]

-----------------------------------------------------------------------------
(* The provider: stacks, their identifiers and the event API *)

RootName == "R"
StackNames == {"R", "A", "B", "C"}

\* the full identifier of each stack; "X" names a stack the provider does not know
StackId == [R |-> "stack/R/1", A |-> "stack/A/2", B |-> "stack/B/3",
            C |-> "stack/C/4", X |-> "stack/X/9"]

NotFound == "NotFound"

\* the stack a name or full identifier resolves to (StackName is "name or unique id")
Resolve(id) ==
    IF id = RootName \/ id = StackId.R THEN "R"
    ELSE IF id = StackId.A THEN "A"
    ELSE IF id = StackId.B THEN "B"
    ELSE IF id = StackId.C THEN "C"
    ELSE NotFound

\* stackname.split('/')[-1]
LastSegment(id) ==
    CASE id = StackId.R -> "1"
      [] id = StackId.A -> "2"
      [] id = StackId.B -> "3"
      [] id = StackId.C -> "4"
      [] id = StackId.X -> "9"
      [] OTHER -> id

\* paginator.paginate(StackName=stackname) raises for this identifier
FetchRaises(prov, id) ==
    \/ Resolve(id) = NotFound
    \/ ~prov[Resolve(id)].found

\* all pages of describe_stack_events, concatenated
FetchAll(prov, id) == prov[Resolve(id)].events

-----------------------------------------------------------------------------
(* Sequence helpers *)

Reverse(s) == [k \in 1..Len(s) |-> s[Len(s) + 1 - k]]

Front(s) == SubSeq(s, 1, Len(s) - 1)

\* The order a stable ascending sort gives to elements with these keys: the
\* element at index k goes behind every element with a smaller key and behind
\* the earlier elements with an equal key. StableOrder(keys)[r] is the index
\* of the element that ends at position r.
StableOrder(keys) ==
    LET rank(k) == 1 + Cardinality({j \in 1..Len(keys) :
                        \/ keys[j] < keys[k]
                        \/ (keys[j] = keys[k] /\ j < k)})
    IN  [r \in 1..Len(keys) |-> CHOOSE k \in 1..Len(keys) : rank(k) = r]

\* all_events.sort(key=lambda x: x["Timestamp"])
SortByTimestamp(s) ==
    LET order == StableOrder([k \in 1..Len(s) |-> s[k].Timestamp])
    IN  [r \in 1..Len(s) |-> s[order[r]]]

\* sorted(nested_stacks.items(), key=lambda x: x[1], reverse=True)
SortByCreationTime_Descending(items) ==
    LET order == StableOrder([k \in 1..Len(items) |-> 0 - items[k][2]])
    IN  [r \in 1..Len(items) |-> items[order[r]]]

\* sorted(nested_stacks.items(), key=lambda x: x[1])
SortByCreationTime(items) ==
    LET order == StableOrder([k \in 1..Len(items) |-> items[k][2]])
    IN  [r \in 1..Len(items) |-> items[order[r]]]

\* next((x for x in s if ...), default), given the indices that pass the test
FirstAt(s, passing, default) ==
    IF passing = {} THEN default
    ELSE s[CHOOSE k \in passing : \A j \in passing : k <= j]

\* d[key] = value on an insertion-ordered dict held as a sequence of <<key, value>>
DictSet(d, key, value) ==
    IF \E k \in 1..Len(d) : d[k][1] = key
    THEN [k \in 1..Len(d) |-> IF d[k][1] = key THEN <<key, value>> ELSE d[k]]
    ELSE Append(d, <<key, value>>)

-----------------------------------------------------------------------------
(* get_stack_creation_events *)

NoneEvent == [EventId |-> None]

IsStartEvent(e) ==
    /\ e.ResourceStatus = CREATE_IN_PROGRESS
    /\ e.ResourceType = StackType
    /\ Get(e, "ResourceStatusReason", "") = "User Initiated"

\* the nested-stack test of the collection loop
IsNestedStackEvent(e, stackname) ==
    /\ e.ResourceType = StackType
    /\ e.PhysicalResourceId # stackname
    /\ e.ResourceStatus = CREATE_IN_PROGRESS
    /\ e.PhysicalResourceId # ""

InWindow(e, start_time, complete_time) ==
    start_time <= e.Timestamp /\ e.Timestamp <= complete_time

\* the loop's update of nested_stacks for one event
TrackNestedStack(e, stackname, nested_stacks) ==
    IF IsNestedStackEvent(e, stackname)
    THEN DictSet(nested_stacks, e.PhysicalResourceId, e.Timestamp)
    ELSE nested_stacks

\* the loop over the creation events, entered with nested_stacks; the list is
\* folded half by half, in a recursion of logarithmic depth
RECURSIVE NestedStacksFrom(_, _, _)
NestedStacksFrom(creation_events, stackname, nested_stacks) ==
    IF creation_events = <<>> THEN nested_stacks
    ELSE IF Len(creation_events) = 1
         THEN TrackNestedStack(creation_events[1], stackname, nested_stacks)
    ELSE LET half == Len(creation_events) \div 2
         IN  CHOOSE after \in
                 {NestedStacksFrom(SubSeq(creation_events, half + 1,
                                          Len(creation_events)), stackname, mid) :
                     mid \in {NestedStacksFrom(SubSeq(creation_events, 1, half),
                                                stackname, nested_stacks)}} : TRUE

\* nested_stacks = {} and the loop over the creation events
NestedStacksOf(creation_events, stackname) ==
    NestedStacksFrom(creation_events, stackname, <<>>)

get_stack_creation_events(stackname, raw) ==
    LET all_events == SortByTimestamp(raw)
        idx == 1..Len(all_events)
        start_event ==
            FirstAt(all_events, {k \in idx : IsStartEvent(all_events[k])}, NoneEvent)
        stack_logical_id ==
            FirstAt(all_events, {k \in idx : all_events[k].ResourceType = StackType},
                    [LogicalResourceId |-> LastSegment(stackname)]).LogicalResourceId
        complete_event ==
            FirstAt(all_events,
                    {k \in idx : /\ all_events[k].ResourceStatus = CREATE_COMPLETE
                                 /\ all_events[k].ResourceType = StackType
                                 /\ all_events[k].LogicalResourceId = stack_logical_id},
                    NoneEvent)
    IN  IF start_event = NoneEvent \/ complete_event = NoneEvent
        THEN [events |-> <<>>, nested |-> <<>>, complete_time |-> None]
        ELSE LET start_time == start_event.Timestamp
                 complete_time == complete_event.Timestamp
                 creation_events ==
                     SelectSeq(all_events,
                               LAMBDA e : InWindow(e, start_time, complete_time))
             IN  [events |-> creation_events,
                  nested |-> NestedStacksOf(creation_events, stackname),
                  complete_time |-> complete_time]

-----------------------------------------------------------------------------
(* retrieve_cf_events *)

\* retrieve_cf_events without its test on processed_stacks
Enter_NoVisitedTest(prov, stackname, root_complete_time, processed) ==
    IF stackname = "" THEN [kind |-> "required"]
    ELSE IF FetchRaises(prov, stackname) THEN [kind |-> "raise"]
    ELSE LET got == get_stack_creation_events(stackname, FetchAll(prov, stackname))
             complete_time == IF root_complete_time # None THEN root_complete_time
                              ELSE got.complete_time
         IN  IF complete_time = None THEN [kind |-> "nocomplete"]
             ELSE [kind |-> "frame",
                   frame |-> [stackname |-> stackname,
                              complete_time |-> complete_time,
                              all_events |-> got.events,
                              pending |-> SortByCreationTime(got.nested)]]

\* what one call does up to the start of its loop over the nested stacks
\*   "required": empty stackname, returns []
\*   "seen":     stackname already in processed_stacks, returns []
\*   "raise":    the fetch raises, after stackname was added to processed_stacks
\*   "nocomplete": no completion time known, returns []
\*   "frame":    the loop starts
Enter(prov, stackname, root_complete_time, processed) ==
    IF stackname = "" THEN [kind |-> "required"]
    ELSE IF stackname \in processed THEN [kind |-> "seen"]
    ELSE IF FetchRaises(prov, stackname) THEN [kind |-> "raise"]
    ELSE LET got == get_stack_creation_events(stackname, FetchAll(prov, stackname))
             complete_time == IF root_complete_time # None THEN root_complete_time
                              ELSE got.complete_time
         IN  IF complete_time = None THEN [kind |-> "nocomplete"]
             ELSE [kind |-> "frame",
                   frame |-> [stackname |-> stackname,
                              complete_time |-> complete_time,
                              all_events |-> got.events,
                              pending |-> SortByCreationTime(got.nested)]]

\* the warnings get_stack_creation_events and retrieve_cf_events record for a
\* fetch that found no start or complete event
WindowWarnings(prov, stackname) ==
    IF get_stack_creation_events(stackname, FetchAll(prov, stackname)).complete_time = None
    THEN {<<"WARNING", "no start or complete event", stackname>>}
    ELSE {}

Top == frames[Len(frames)]

\* main calls retrieve_cf_events(stackname) with no visited set and no root time
main_call ==
    /\ pc = "start"
    /\ LET r == Enter(provider, arg, None, {})
       IN  CASE r.kind = "required" ->
                  /\ pc' = "returned"
                  /\ events' = <<>>
                  /\ log' = log \cup {<<"ERROR", "stack name is required", arg>>}
                  /\ UNCHANGED <<frames, processed_stacks, fetched>>
             [] r.kind = "raise" ->
                  /\ pc' = "done"
                  /\ log' = log \cup {<<"ERROR", "an error occurred", arg>>}
                  /\ processed_stacks' = {arg}
                  /\ fetched' = Append(fetched, arg)
                  /\ UNCHANGED <<frames, events>>
             [] r.kind = "nocomplete" ->
                  /\ pc' = "returned"
                  /\ events' = <<>>
                  /\ log' = log \cup WindowWarnings(provider, arg)
                                \cup {<<"WARNING", "no completion time", arg>>}
                  /\ processed_stacks' = {arg}
                  /\ fetched' = Append(fetched, arg)
                  /\ UNCHANGED frames
             [] r.kind = "frame" ->
                  /\ pc' = "collect"
                  /\ frames' = <<r.frame>>
                  /\ processed_stacks' = {arg}
                  /\ fetched' = Append(fetched, arg)
                  /\ UNCHANGED <<events, log>>
    /\ UNCHANGED <<provider, arg, data, ev, nfold, traced, traces, shown>>

\* the loop reaches a nested stack for which the test on creation_time passes
LoopCalls ==
    /\ pc = "collect"
    /\ frames # <<>>
    /\ Top.pending # <<>>
    /\ Top.pending[1][1] # ""
    /\ Top.pending[1][2] <= Top.complete_time

NextNested == Top.pending[1][1]

Advance(f) == [f EXCEPT !.pending = Tail(@)]

\* a nested stack created after the root completed is not processed
nested_skip ==
    /\ pc = "collect"
    /\ frames # <<>>
    /\ Top.pending # <<>>
    /\ ~(Top.pending[1][1] # "" /\ Top.pending[1][2] <= Top.complete_time)
    /\ frames' = [frames EXCEPT ![Len(frames)] = Advance(@)]
    /\ UNCHANGED <<provider, arg, pc, processed_stacks, fetched, events, log,
                   data, ev, nfold, traced, traces, shown>>

\* the recursive call returns [] at once: the stack was already processed
nested_already_processed ==
    /\ LoopCalls
    /\ Enter(provider, NextNested, Top.complete_time, processed_stacks).kind = "seen"
    /\ frames' = [frames EXCEPT ![Len(frames)] = Advance(@)]
    /\ UNCHANGED <<provider, arg, pc, processed_stacks, fetched, events, log,
                   data, ev, nfold, traced, traces, shown>>

\* the loop without its try/except: the exception of the nested fetch leaves
\* every active call and reaches main
nested_fetch_fails_Propagates ==
    /\ LoopCalls
    /\ Enter(provider, NextNested, Top.complete_time, processed_stacks).kind = "raise"
    /\ processed_stacks' = processed_stacks \cup {NextNested}
    /\ fetched' = Append(fetched, NextNested)
    /\ log' = log \cup {<<"ERROR", "an error occurred", arg>>}
    /\ frames' = <<>>
    /\ pc' = "done"
    /\ UNCHANGED <<provider, arg, events, data, ev, nfold, traced, traces, shown>>

\* the recursive call raises in its fetch; the caller's except clause logs a
\* warning and the loop goes on
nested_fetch_fails ==
    /\ LoopCalls
    /\ Enter(provider, NextNested, Top.complete_time, processed_stacks).kind = "raise"
    /\ processed_stacks' = processed_stacks \cup {NextNested}
    /\ fetched' = Append(fetched, NextNested)
    /\ log' = log \cup {<<"WARNING", "could not retrieve nested stack", NextNested>>}
    /\ frames' = [frames EXCEPT ![Len(frames)] = Advance(@)]
    /\ UNCHANGED <<provider, arg, pc, events, data, ev, nfold, traced,
                   traces, shown>>

\* the recursive call with processed_stacks.add(stackname) left out
nested_call_NoMark ==
    /\ LoopCalls
    /\ LET r == Enter(provider, NextNested, Top.complete_time, processed_stacks)
       IN  /\ r.kind = "frame"
           /\ frames' = Append([frames EXCEPT ![Len(frames)] = Advance(@)], r.frame)
           /\ log' = log \cup WindowWarnings(provider, NextNested)
    /\ fetched' = Append(fetched, NextNested)
    /\ UNCHANGED <<provider, arg, pc, processed_stacks, events, data, ev, nfold,
                   traced, traces, shown>>

\* the recursive call fetches the nested stack and starts its own loop
nested_call ==
    /\ LoopCalls
    /\ LET r == Enter(provider, NextNested, Top.complete_time, processed_stacks)
       IN  /\ r.kind = "frame"
           /\ frames' = Append([frames EXCEPT ![Len(frames)] = Advance(@)], r.frame)
           /\ log' = log \cup WindowWarnings(provider, NextNested)
    /\ processed_stacks' = processed_stacks \cup {NextNested}
    /\ fetched' = Append(fetched, NextNested)
    /\ UNCHANGED <<provider, arg, pc, events, data, ev, nfold, traced,
                   traces, shown>>

\* a call's loop is over: it returns all_events, which the caller appends to
\* its own all_events (or main receives)
retrieve_return ==
    /\ pc = "collect"
    /\ frames # <<>>
    /\ Top.pending = <<>>
    /\ IF Len(frames) = 1
       THEN /\ events' = Top.all_events
            /\ frames' = <<>>
            /\ pc' = "returned"
       ELSE /\ frames' = Front(Front(frames)) \o
                            <<[frames[Len(frames) - 1] EXCEPT
                                 !.all_events = @ \o Top.all_events]>>
            /\ UNCHANGED <<events, pc>>
    /\ UNCHANGED <<provider, arg, processed_stacks, fetched, log, data, ev,
                   nfold, traced, traces, shown>>

-----------------------------------------------------------------------------
(* main, process_events, display_figure *)

\* main without its test for an empty event list
main_check_NoGuard ==
    /\ pc = "returned"
    /\ pc' = "process"
    /\ UNCHANGED <<provider, arg, frames, processed_stacks, fetched, events, log,
                   data, ev, nfold, traced, traces, shown>>

\* main looks at what retrieve_cf_events returned
main_check ==
    /\ pc = "returned"
    /\ IF events = <<>>
       THEN /\ log' = log \cup {<<"ERROR", "no events found", arg>>}
            /\ pc' = "done"
       ELSE /\ pc' = "process"
            /\ UNCHANGED log
    /\ UNCHANGED <<provider, arg, frames, processed_stacks, fetched, events,
                   data, ev, nfold, traced, traces, shown>>

\* for event in events: data = update_data_for_event(event, data)
\* The list is folded half by half, the timeline after the first half being
\* the one the second half starts from: the same left-to-right fold as the
\* loop's, in a recursion of logarithmic depth.
RECURSIVE FoldAll(_, _)
FoldAll(evs, d) ==
    IF evs = <<>> THEN d
    ELSE IF Len(evs) = 1 THEN update_data_for_event(evs[1], d)
    ELSE LET half == Len(evs) \div 2
         IN  CHOOSE after \in
                 {FoldAll(SubSeq(evs, half + 1, Len(evs)), mid) :
                     mid \in {FoldAll(SubSeq(evs, 1, half), d)}} : TRUE

\* process_events' test with the duration test left out
TraceEligible_NoDurationTest(event, d) ==
    /\ event.ResourceStatus = CREATE_COMPLETE
    /\ event.StackName \in Range(d.keys)
    /\ <<event.StackName, event.LogicalResourceId>> \in DOMAIN d.recs

\* the test process_events applies to an event before it builds a trace
TraceEligible(event, d) ==
    /\ event.ResourceStatus = CREATE_COMPLETE
    /\ event.StackName \in Range(d.keys)
    /\ <<event.StackName, event.LogicalResourceId>> \in DOMAIN d.recs
    /\ d.recs[<<event.StackName, event.LogicalResourceId>>].duration # None

IsRootSelfReference(event) ==
    /\ event.ResourceType = StackType
    /\ event.StackName = event.LogicalResourceId

\* timedelta.seconds
Seconds(td) == td % 86400

\* construct_event_trace with update_trace (is_total = False)
construct_event_trace(start_time, rd, event) ==
    [y |-> <<event.StackName, event.LogicalResourceId>>,
     base |-> Seconds(rd.identified - start_time),
     x |-> IF Seconds(rd.duration_i2s) > 0
           THEN <<Seconds(rd.duration_i2s), Seconds(rd.duration_s2e)>>
           ELSE <<Seconds(rd.duration_s2e)>>,
     text |-> Seconds(rd.duration)]

\* second pass of process_events: the set processed_stacks and the traces
\* one iteration of the second pass without its two skips
TraceStep_NoSkips(event, start_time, d, acc) ==
    LET stack_identifier == <<event.StackName, event.LogicalResourceId>>
    IN  IF TraceEligible(event, d)
        THEN [traced |-> acc.traced \cup {stack_identifier},
              traces |-> Append(acc.traces,
                                construct_event_trace(
                                    start_time, d.recs[stack_identifier], event))]
        ELSE acc

\* one iteration of the second pass: acc holds processed_stacks (traced) and
\* the traces added to the figure so far
TraceStep(event, start_time, d, acc) ==
    LET stack_identifier == <<event.StackName, event.LogicalResourceId>>
    IN  IF /\ TraceEligible(event, d)
           /\ stack_identifier \notin acc.traced
           /\ ~IsRootSelfReference(event)
        THEN [traced |-> acc.traced \cup {stack_identifier},
              traces |-> Append(acc.traces,
                                construct_event_trace(
                                    start_time, d.recs[stack_identifier], event))]
        ELSE acc

\* the loop of the second pass over evs, entered with acc; folded half by
\* half like FoldAll
RECURSIVE SecondPassFrom(_, _, _, _)
SecondPassFrom(evs, start_time, d, acc) ==
    IF evs = <<>> THEN acc
    ELSE IF Len(evs) = 1 THEN TraceStep(evs[1], start_time, d, acc)
    ELSE LET half == Len(evs) \div 2
         IN  CHOOSE after \in
                 {SecondPassFrom(SubSeq(evs, half + 1, Len(evs)), start_time, d, mid) :
                     mid \in {SecondPassFrom(SubSeq(evs, 1, half), start_time, d, acc)}} :
                 TRUE

\* for event in events: ... with processed_stacks = set() and an empty figure
SecondPass(evs, start_time, d) ==
    SecondPassFrom(evs, start_time, d, [traced |-> {}, traces |-> <<>>])

process_events ==
    /\ pc = "process"
    /\ data' = FoldAll(events, data)
    /\ \E second \in {SecondPass(events, events[1].Timestamp, data')} :
          /\ traced' = second.traced
          /\ traces' = second.traces
    /\ ev' = events[Len(events)]
    /\ nfold' = nfold + Len(events)
    /\ pc' = "display"
    /\ UNCHANGED <<provider, arg, frames, processed_stacks, fetched, events,
                   log, shown>>

\* display_figure's title needs no total time (the lookup is not made)
RootTotalDefined_NotRead(d, stackname) == TRUE

\* data[stackname][stackname]["duration"].seconds can be evaluated
RootTotalDefined(d, stackname) ==
    /\ stackname \in Range(d.keys)
    /\ <<stackname, stackname>> \in DOMAIN d.recs
    /\ d.recs[<<stackname, stackname>>].duration # None

\* display_figure; an exception it raises is caught and logged by main
display_figure ==
    /\ pc = "display"
    /\ IF RootTotalDefined(data, arg)
       THEN /\ shown' = TRUE
            /\ UNCHANGED log
       ELSE /\ log' = log \cup {<<"ERROR", "an error occurred", arg>>}
            /\ UNCHANGED shown
    /\ pc' = "done"
    /\ UNCHANGED <<provider, arg, frames, processed_stacks, fetched, events,
                   data, ev, nfold, traced, traces>>

-----------------------------------------------------------------------------
(* Event streams the provider may hold *)

\* how late the nested stack A is created, relative to the earliest possible
MaxShift == 2

User_Initiated == "User Initiated"
Resource_creation_initiated == "Resource creation initiated"

ChildLogical == [R |-> "RNested", A |-> "ANested", B |-> "BNested",
                 C |-> "CNested", X |-> "XNested"]

OwnStart(name, reason, t) ==
    <<WithReason(Event(None, name, name, StackType, CREATE_IN_PROGRESS,
                       StackId[name], t), reason)>>

OwnEnd(name, status, t) ==
    <<Event(None, name, name, StackType, status, StackId[name], t)>>

\* the parent's events that announce the nested stack c
ChildRef(name, c, t) ==
    <<Event(None, name, ChildLogical[c], StackType, CREATE_IN_PROGRESS, "", t),
      WithReason(Event(None, name, ChildLogical[c], StackType, CREATE_IN_PROGRESS,
                       StackId[c], t), Resource_creation_initiated)>>

ChildDone(name, c, t) ==
    <<Event(None, name, ChildLogical[c], StackType, CREATE_COMPLETE, StackId[c], t)>>

\* a plain resource: sighted at t, started at t + 1, complete at t + 2
ResEvents(name, variant, t) ==
    LET seen == <<Event(None, name, "Res", BucketType, CREATE_IN_PROGRESS, "", t)>>
        started == <<WithReason(Event(None, name, "Res", BucketType,
                                      CREATE_IN_PROGRESS, "bucket", t + 1),
                                Resource_creation_initiated)>>
        complete == <<Event(None, name, "Res", BucketType, CREATE_COMPLETE,
                            "bucket", t + 2)>>
    IN  CASE variant = "full" -> seen \o started \o complete
          [] variant = "nostart" -> seen \o complete
          [] variant = "short" -> started \o complete
          [] OTHER -> <<>>

\* every event of a stream gets its own EventId
Tag(name, s) == [k \in 1..Len(s) |-> [s[k] EXCEPT !.EventId = <<name, k>>]]

\* nested stacks the root announces, in creation order
RootRefs == {<<>>, <<"A">>, <<"X">>, <<"A", "B">>, <<"B", "A">>, <<"A", "X">>, <<"X", "A">>}

RootStream(kind, refs, refAt, res) ==
    LET start == CASE kind \in {"ok", "failed", "nocomplete"} ->
                        OwnStart("R", User_Initiated, 1)
                   [] kind = "lowercase" -> OwnStart("R", "user initiated", 1)
                   [] OTHER -> <<>>
        ref1 == IF Len(refs) >= 1 THEN ChildRef("R", refs[1], refAt) ELSE <<>>
        ref2 == IF Len(refs) >= 2 THEN ChildRef("R", refs[2], 3) ELSE <<>>
        done1 == IF Len(refs) >= 1 THEN ChildDone("R", refs[1], 4) ELSE <<>>
        done2 == IF Len(refs) >= 2 THEN ChildDone("R", refs[2], 4) ELSE <<>>
        end == CASE kind \in {"ok", "lowercase", "nostart"} ->
                      OwnEnd("R", CREATE_COMPLETE, 4)
                 [] kind = "failed" -> OwnEnd("R", CREATE_FAILED, 4)
                 [] OTHER -> <<>>
    IN  IF kind = "empty" THEN <<>>
        ELSE Tag("R", start \o ref1 \o ref2 \o ResEvents("R", res, 2)
                      \o done1 \o done2 \o end)

\* a nested stack created at 2 + shift that announces the stack `inner`
NestedStream(name, complete, inner, shift) ==
    Tag(name,
        OwnStart(name, User_Initiated, 2 + shift)
        \o (IF inner = "none" THEN <<>> ELSE ChildRef(name, inner, 3 + shift))
        \o ResEvents(name, "short", 2 + shift)
        \o (IF complete THEN OwnEnd(name, CREATE_COMPLETE, 4 + shift) ELSE <<>>))

\* the provider does not know the stack (deleted, or never created)
Unknown == [found |-> FALSE, events |-> <<>>]

Known(s) == [found |-> TRUE, events |-> s]

AStreams ==
    {<<>>, NestedStream("A", FALSE, "none", 0)}
    \cup {NestedStream("A", TRUE, inner, shift) :
             inner \in {"none", "B", "R"}, shift \in 0..MaxShift}

BStreams == {NestedStream("B", TRUE, inner, 1) : inner \in {"none", "A"}}

\* the API may deliver a stream in either direction
Delivered(s, order) == Known(IF order = "listed" THEN s ELSE Reverse(s))

ProviderOf(kind, refs, refAt, res, a, b, order) ==
    [R |-> Delivered(RootStream(kind, refs, refAt, res), order),
     A |-> IF a = <<>> THEN Unknown ELSE Delivered(a, order),
     B |-> Delivered(b, order),
     C |-> Unknown]

\* roots whose creation started: it completed, or it failed
StartedRoots ==
    {ProviderOf(kind, refs, refAt, res, a, b, order) :
        kind \in {"ok", "failed"}, refs \in RootRefs, refAt \in {1, 2},
        res \in {"none", "full", "nostart"},
        a \in AStreams, b \in BStreams, order \in {"listed", "reversed"}}

\* roots with no usable start or no end event at all, and the empty stream
OtherRoots ==
    {ProviderOf(kind, refs, 2, "full", NestedStream("A", TRUE, "none", 0),
                NestedStream("B", TRUE, "none", 1), order) :
        kind \in {"lowercase", "nostart", "nocomplete", "empty"},
        refs \in {<<>>, <<"A">>}, order \in {"listed", "reversed"}}

\* a nested stack created at 2 + shift that announces two stacks, one after
\* the other
TwoChildStream(name, first, second, shift) ==
    Tag(name,
        OwnStart(name, User_Initiated, 2 + shift)
        \o ChildRef(name, first, 3 + shift)
        \o ChildRef(name, second, 4 + shift)
        \o OwnEnd(name, CREATE_COMPLETE, 4 + shift))

\* a stream with events of the stack's later life around its creation: a
\* resource from before the start, and after the end a new resource and the
\* announcement of the nested stack c
WithOutside(name, s, c) ==
    Tag(name,
        <<Event(None, name, "Old", BucketType, CREATE_COMPLETE, "old", 0)>>
        \o s
        \o <<Event(None, name, "Late", BucketType, CREATE_IN_PROGRESS, "", 5)>>
        \o ChildRef(name, c, 5))

\* graphs in which a nested stack announces two stacks, one of them announced
\* by the root too
DiamondRoots ==
    {[R |-> Delivered(RootStream("ok", refs, refAt, "none"), order),
      A |-> Delivered(TwoChildStream("A", c[1], c[2], 0), order),
      B |-> Delivered(NestedStream("B", TRUE, "none", 1), order),
      C |-> Delivered(NestedStream("C", TRUE, "none", 1), order)] :
        refs \in {<<"A", "B">>, <<"B", "A">>}, refAt \in {1, 2},
        c \in {<<"C", "B">>, <<"B", "C">>}, order \in {"listed", "reversed"}}

\* stacks whose streams go on after the creation
UpdatedRoots ==
    {[R |-> Delivered(WithOutside("R", RootStream(kind, <<"A">>, 2, "full"), "B"),
                      order),
      A |-> Delivered(WithOutside("A", NestedStream("A", TRUE, "none", 0), "C"),
                      order),
      B |-> Delivered(NestedStream("B", TRUE, "none", 1), order),
      C |-> Delivered(NestedStream("C", TRUE, "none", 1), order)] :
        kind \in {"ok", "failed"}, order \in {"listed", "reversed"}}

Providers == StartedRoots \cup OtherRoots \cup DiamondRoots \cup UpdatedRoots

Init ==
    /\ \/ /\ provider \in Providers
          /\ arg \in {RootName, StackId.R}
       \/ /\ provider \in OtherRoots
          /\ arg \in {StackId.X, ""}
    /\ pc = "start"
    /\ frames = <<>>
    /\ processed_stacks = {}
    /\ fetched = <<>>
    /\ events = <<>>
    /\ log = {}
    /\ data = EmptyData
    /\ ev = NoEvent
    /\ nfold = 0
    /\ traced = {}
    /\ traces = <<>>
    /\ shown = FALSE

Next ==
    \/ main_call
    \/ nested_skip
    \/ nested_already_processed
    \/ nested_fetch_fails
    \/ nested_call
    \/ retrieve_return
    \/ main_check
    \/ process_events
    \/ display_figure

Spec == Init /\ [][Next]_vars

-----------------------------------------------------------------------------
(* Standalone fold: update_data_for_event over a chronologically sorted     *)
(* event sequence                                                           *)

FoldPairs == {<<"R", "R">>, <<"A", "Res">>}
FoldReasons == {"", "User Initiated", "user initiated", "Resource creation initiated"}

FoldEvents ==
    LET base == {Event("f", p[1], p[2], BucketType, s, "", t) :
                    p \in FoldPairs,
                    s \in {CREATE_IN_PROGRESS, CREATE_COMPLETE, CREATE_FAILED},
                    t \in 1..MaxT}
    IN  base \cup {WithReason(e, r) :
                      e \in {b \in base : b.ResourceStatus = CREATE_IN_PROGRESS},
                      r \in FoldReasons}

InitFold ==
    /\ provider = [n \in StackNames |-> Unknown]
    /\ arg = ""
    /\ pc = "fold"
    /\ frames = <<>>
    /\ processed_stacks = {}
    /\ fetched = <<>>
    /\ events = <<>>
    /\ log = {}
    /\ data = EmptyData
    /\ ev = NoEvent
    /\ nfold = 0
    /\ traced = {}
    /\ traces = <<>>
    /\ shown = FALSE

\* the caller hands the next event of a sorted sequence to the fold
FoldNext ==
    /\ pc = "fold"
    /\ nfold < MaxFold
    /\ \E e \in FoldEvents :
          /\ e.Timestamp >= ev.Timestamp
          /\ data' = update_data_for_event(e, data)
          /\ ev' = e
    /\ nfold' = nfold + 1
    /\ UNCHANGED <<provider, arg, pc, frames, processed_stacks, fetched, events,
                   log, traced, traces, shown>>

NextFold == FoldNext

SpecFold == InitFold /\ [][NextFold]_vars

-----------------------------------------------------------------------------
(* Properties of the fold *)

PairOf(e) == <<e.StackName, e.LogicalResourceId>>

\* this step handed one event (ev') to update_data_for_event
Folded == nfold' = nfold + 1

HasRecord(d, p) == p \in DOMAIN d.recs

\* the record is Completed: end set and durations computed
Completed(rd) == rd.end # None /\ rd.duration # None

NoReasonGiven(e) == Get(e, "ResourceStatusReason", "") = ""

\* C2: once a record is Completed, folding a later CREATE_IN_PROGRESS event
\* for the same resource leaves its identified and start timestamps and its
\* three durations as they were.
C2_NoRegression ==
    [][(/\ Folded
        /\ ev'.ResourceStatus = CREATE_IN_PROGRESS
        /\ HasRecord(data, PairOf(ev'))
        /\ Completed(data.recs[PairOf(ev')]))
       => LET old == data.recs[PairOf(ev')]
              new == data'.recs[PairOf(ev')]
          IN  /\ new.identified = old.identified
              /\ new.start = old.start
              /\ new.duration = old.duration
              /\ new.duration_i2s = old.duration_i2s
              /\ new.duration_s2e = old.duration_s2e]_vars

\* C3: after folding any chronologically sorted event sequence, every record
\* with defined durations has duration = duration_i2s + duration_s2e and all
\* three durations are non-negative.
C3_DurationLaw ==
    \A p \in DOMAIN data.recs :
        LET rd == data.recs[p]
        IN  (rd.duration # None \/ rd.duration_i2s # None \/ rd.duration_s2e # None)
            => /\ rd.duration # None
               /\ rd.duration_i2s # None
               /\ rd.duration_s2e # None
               /\ rd.duration = rd.duration_i2s + rd.duration_s2e
               /\ rd.duration >= 0
               /\ rd.duration_i2s >= 0
               /\ rd.duration_s2e >= 0

\* a record with a positive wait and a positive work duration
C3_Witness ==
    \E p \in DOMAIN data.recs :
        /\ data.recs[p].duration # None
        /\ data.recs[p].duration_i2s > 0
        /\ data.recs[p].duration_s2e > 0

\* C9: when CREATE_COMPLETE is folded for a record that was sighted
\* (identified set) but never started (start unset), the record is kept with
\* identified unchanged, end set to the event's timestamp, start still unset
\* and no duration defined.
C9_MissingStart ==
    [][(/\ Folded
        /\ ev'.ResourceStatus = CREATE_COMPLETE
        /\ HasRecord(data, PairOf(ev'))
        /\ data.recs[PairOf(ev')].identified # None
        /\ data.recs[PairOf(ev')].start = None)
       => /\ HasRecord(data', PairOf(ev'))
          /\ LET old == data.recs[PairOf(ev')]
                 new == data'.recs[PairOf(ev')]
             IN  /\ new.identified = old.identified
                 /\ new.end = ev'.Timestamp
                 /\ new.start = None
                 /\ new.duration = None
                 /\ new.duration_i2s = None
                 /\ new.duration_s2e = None]_vars

\* CREATE_COMPLETE was just folded for a record that was sighted earlier and
\* never started
C9_Witness ==
    /\ ev.Timestamp > 0
    /\ ev.ResourceStatus = CREATE_COMPLETE
    /\ HasRecord(data, PairOf(ev))
    /\ LET rd == data.recs[PairOf(ev)]
       IN  /\ rd.identified # None
           /\ rd.identified < ev.Timestamp
           /\ rd.start = None
           /\ rd.end = ev.Timestamp
           /\ rd.duration = None

\* the case of C10: a CREATE_IN_PROGRESS event with an empty or absent reason
\* is folded for a record that has identified set and no start yet
ReSighting ==
    /\ Folded
    /\ ev'.ResourceStatus = CREATE_IN_PROGRESS
    /\ NoReasonGiven(ev')
    /\ HasRecord(data, PairOf(ev'))
    /\ data.recs[PairOf(ev')].identified # None
    /\ data.recs[PairOf(ev')].start = None

\* C10 as claimed: such an event refreshes identified to its own timestamp.
C10_Refreshes ==
    [][ReSighting => data'.recs[PairOf(ev')].identified = ev'.Timestamp]_vars

\* C10 amended: such an event leaves identified (and the whole record) as it
\* was; identified keeps the timestamp of the first sighting.
C10_KeepsFirstSighting ==
    [][ReSighting => data'.recs[PairOf(ev')] = data.recs[PairOf(ev')]]_vars

\* a second reason-less CREATE_IN_PROGRESS sighting, later than the first,
\* was just folded for a record that has not started
C10_Witness ==
    /\ ev.Timestamp > 0
    /\ ev.ResourceStatus = CREATE_IN_PROGRESS
    /\ NoReasonGiven(ev)
    /\ HasRecord(data, PairOf(ev))
    /\ data.recs[PairOf(ev)].identified # None
    /\ data.recs[PairOf(ev)].identified < ev.Timestamp
    /\ data.recs[PairOf(ev)].start = None

-----------------------------------------------------------------------------
(* Properties of the collection and of main *)

\* the events retrieve_cf_events keeps of one fetch of identifier id
CreationEventsOf(id) ==
    get_stack_creation_events(id, FetchAll(provider, id)).events

Occurrences(s, e) == Cardinality({k \in 1..Len(s) : s[k] = e})

IsSorted(s) == \A j, k \in 1..Len(s) : j < k => s[j].Timestamp <= s[k].Timestamp

\* C1: in the list a top-level retrieve_cf_events call returns, every event of
\* every collected deployment occurs exactly once.
C1_EachEventOnce ==
    pc = "returned" =>
        \A k \in 1..Len(fetched) :
            ~FetchRaises(provider, fetched[k]) =>
                \A e \in Range(CreationEventsOf(fetched[k])) :
                    Occurrences(events, e) = 1

\* C4: the event list main hands to process_events is sorted by timestamp
\* ascending when folding begins, and its first event has the earliest
\* timestamp of the list.
C4_SortedBeforeFolding ==
    pc = "process" =>
        /\ IsSorted(events)
        /\ \A k \in 1..Len(events) : events[1].Timestamp <= events[k].Timestamp

\* C5: every trace process_events created belongs to a record that has end
\* set and all three durations defined.
C5_OutputGuard ==
    \A k \in 1..Len(traces) :
        /\ traces[k].y \in DOMAIN data.recs
        /\ LET rd == data.recs[traces[k].y]
           IN  /\ rd.end # None
               /\ rd.duration # None
               /\ rd.duration_i2s # None
               /\ rd.duration_s2e # None

\* traces were created, and a resource that completed without durations was
\* left out
C5_Witness ==
    /\ traces # <<>>
    /\ \E k \in 1..Len(events) :
          /\ events[k].ResourceStatus = CREATE_COMPLETE
          /\ PairOf(events[k]) \in DOMAIN data.recs
          /\ data.recs[PairOf(events[k])].end # None
          /\ data.recs[PairOf(events[k])].duration = None
          /\ PairOf(events[k]) \notin traced

IsOwnCompletion(e) ==
    /\ e.ResourceType = StackType
    /\ e.LogicalResourceId = e.StackName
    /\ e.ResourceStatus = CREATE_COMPLETE

\* the provider has no CREATE_COMPLETE event of the root stack itself
RootNeverCompletes ==
    \/ FetchRaises(provider, arg)
    \/ \A e \in Range(FetchAll(provider, arg)) : ~IsOwnCompletion(e)

ErrorReported == \E l \in log : l[1] = "ERROR"

\* C6: when the root stack's own resource never reaches CREATE_COMPLETE, the
\* figure is never shown and a finished run has reported an error.
C6_FailedRootNotShown ==
    RootNeverCompletes => (~shown /\ (pc = "done" => ErrorReported))

\* a failed root whose events were collected and traced; display_figure did
\* not show the figure
C6_Witness ==
    /\ RootNeverCompletes
    /\ pc = "done"
    /\ traces # <<>>
    /\ ~shown
    /\ ErrorReported

\* C7: when the fetch of a nested stack raises, the calling retrieve_cf_events
\* stays active with its own events untouched, a warning is recorded and no
\* error, and the loop moves on; and the list finally returned holds the
\* events of every stack whose fetch succeeded.
C7_SkipAndWarn ==
    [][/\ (/\ pc = "collect"
           /\ Len(fetched') = Len(fetched) + 1
           /\ FetchRaises(provider, fetched'[Len(fetched')]))
          => /\ pc' = "collect"
             /\ Len(frames') = Len(frames)
             /\ frames'[Len(frames')].stackname = Top.stackname
             /\ frames'[Len(frames')].all_events = Top.all_events
             /\ frames'[Len(frames')].pending = Tail(Top.pending)
             /\ <<"WARNING", "could not retrieve nested stack",
                  fetched'[Len(fetched')]>> \in log'
             /\ \A l \in log' \ log : l[1] = "WARNING"
       /\ (pc = "collect" /\ pc' = "returned")
          => \A k \in 1..Len(fetched) :
                ~FetchRaises(provider, fetched[k]) =>
                    Range(CreationEventsOf(fetched[k])) \subseteq Range(events')
      ]_vars

\* a nested fetch failed, a stack fetched after it resolved, and the returned
\* list holds the root's events and that stack's events
C7_Witness ==
    /\ pc = "returned"
    /\ \E j, k \in 1..Len(fetched) :
          /\ j < k
          /\ FetchRaises(provider, fetched[j])
          /\ <<"WARNING", "could not retrieve nested stack", fetched[j]>> \in log
          /\ ~FetchRaises(provider, fetched[k])
          /\ \E e \in Range(events) : e.StackName = Resolve(fetched[k])
          /\ \E e \in Range(events) : e.StackName = Resolve(fetched[1])
          /\ Resolve(fetched[k]) # Resolve(fetched[1])

\* the root stack resolves and has no events at all
RootEmpty ==
    /\ ~FetchRaises(provider, arg)
    /\ FetchAll(provider, arg) = <<>>

\* C8: when the root stack has no events, retrieve_cf_events returns [] and
\* raises nothing, main reports "no events found" and ends; nothing is
\* folded, traced or shown.
C8_EmptyRoot ==
    RootEmpty =>
        /\ pc \in {"start", "returned", "done"}
        /\ events = <<>>
        /\ frames = <<>>
        /\ nfold = 0
        /\ data = EmptyData
        /\ traces = <<>>
        /\ ~shown
        /\ <<"ERROR", "an error occurred", arg>> \notin log
        /\ pc = "done" => <<"ERROR", "no events found", arg>> \in log

\* a run on an empty root stream has ended
C8_Witness ==
    /\ RootEmpty
    /\ pc = "done"
    /\ fetched = <<arg>>

-----------------------------------------------------------------------------
(* Further properties of the fold *)

\* C11: after its first event has been folded, whatever the event's status,
\* a record has identified set: no record has identified unset.
C11_IdentifiedAtFirstEvent ==
    \A p \in DOMAIN data.recs : data.recs[p].identified # None

IsPrefix(s, t) == Len(s) <= Len(t) /\ SubSeq(t, 1, Len(s)) = s

\* C15: folding one event changes at most the record of the event's own
\* (stack, resource) pair: every other record stays as it was, no record and
\* no stack key is removed, and the only record that may appear is the
\* event's own.
C15_Frame ==
    [][Folded =>
        /\ \A q \in DOMAIN data.recs :
              /\ q \in DOMAIN data'.recs
              /\ q # PairOf(ev') => data'.recs[q] = data.recs[q]
        /\ DOMAIN data'.recs = DOMAIN data.recs \cup {PairOf(ev')}
        /\ IsPrefix(data.keys, data'.keys)
        /\ Range(data'.keys) = Range(data.keys) \cup {ev'.StackName}]_vars

\* the timeline holds a Completed record of another pair, and the event just
\* folded changed the record of its own pair
C15_Witness ==
    /\ ev.Timestamp > 0
    /\ HasRecord(data, PairOf(ev))
    /\ data.recs[PairOf(ev)] # NewRecord
    /\ \E q \in DOMAIN data.recs :
          /\ q # PairOf(ev)
          /\ Completed(data.recs[q])
          /\ data.recs[q] # data.recs[PairOf(ev)]

-----------------------------------------------------------------------------
(* Casing of status reasons *)

\* the stream with every status reason lower-cased; an event without a reason
\* stays without one
LowerReasons(s) ==
    [k \in 1..Len(s) |->
        IF "ResourceStatusReason" \in DOMAIN s[k]
        THEN [s[k] EXCEPT !.ResourceStatusReason = Lower(@)]
        ELSE s[k]]

\* C12: two streams that differ only in the casing of their status reasons
\* yield the same collected events, the same nested stacks and completion time,
\* and the same timeline.
C12_CasingIrrelevant ==
    pc = "start" =>
        \A n \in StackNames :
            provider[n].found =>
                LET given == get_stack_creation_events(StackId[n], provider[n].events)
                    lower == get_stack_creation_events(StackId[n],
                                 LowerReasons(provider[n].events))
                IN  /\ lower.events = LowerReasons(given.events)
                    /\ lower.nested = given.nested
                    /\ lower.complete_time = given.complete_time
                    /\ FoldAll(lower.events, EmptyData)
                         = FoldAll(given.events, EmptyData)

-----------------------------------------------------------------------------
(* Order of the stack keys of the timeline *)

\* the elements of s in the order of their first occurrence
FirstOccurrences(s) ==
    LET keep == {k \in 1..Len(s) : \A j \in 1..(k - 1) : s[j] # s[k]}
        nth(r) == CHOOSE k \in keep : Cardinality({j \in keep : j < k}) = r - 1
    IN  [r \in 1..Cardinality(keep) |-> s[nth(r)]]

IndexIn(s, x) == CHOOSE k \in 1..Len(s) : s[k] = x

\* the stacks in the order of their first fetch that returned creation events
DiscoveryOrder ==
    LET got == SelectSeq(fetched, LAMBDA id : /\ ~FetchRaises(provider, id)
                                             /\ CreationEventsOf(id) # <<>>)
    IN  FirstOccurrences([k \in 1..Len(got) |-> Resolve(got[k])])

\* the nested stacks a fetched stack announces, in creation order
SiblingsOf(id) ==
    IF FetchRaises(provider, id) THEN <<>>
    ELSE SortByCreationTime(
             get_stack_creation_events(id, FetchAll(provider, id)).nested)

RootCompleteTime ==
    get_stack_creation_events(arg, FetchAll(provider, arg)).complete_time

\* x and y are nested stacks that one fetched stack announces,
\* x created before y, and both have a key in the timeline
SiblingsInTimeline(x, y) ==
    /\ x[2] < y[2]
    /\ Resolve(x[1]) # Resolve(y[1])
    /\ Resolve(x[1]) \in Range(data.keys)
    /\ Resolve(y[1]) \in Range(data.keys)

KeyBefore(x, y) ==
    IndexIn(data.keys, Resolve(x[1])) < IndexIn(data.keys, Resolve(y[1]))

-----------------------------------------------------------------------------
(* The visited set *)

\* C16: a stack identifier is fetched only if it is not in processed_stacks,
\* and it is in processed_stacks once the fetch has been made, so no
\* identifier is fetched twice; every call that runs its loop over the nested
\* stacks has its identifier in processed_stacks; a call for an identifier
\* already in processed_stacks fetches nothing, returns no events to its
\* caller and leaves processed_stacks unchanged.
C16_RecursionGuard ==
    [][/\ fetched' # fetched =>
            LET id == fetched'[Len(fetched')]
            IN  /\ fetched' = Append(fetched, id)
                /\ id \notin processed_stacks
                /\ id \notin Range(fetched)
                /\ id \in processed_stacks'
       /\ \A k \in 1..Len(frames') : frames'[k].stackname \in processed_stacks'
       /\ (LoopCalls /\ NextNested \in processed_stacks) =>
            /\ fetched' = fetched
            /\ processed_stacks' = processed_stacks
            /\ frames' = [frames EXCEPT ![Len(frames)] = Advance(@)]
            /\ events' = events]_vars

\* the collection is over and one of the fetched stacks announces, before the
\* root's completion, a stack that had been fetched before
C16_Witness ==
    /\ pc = "returned"
    /\ \E p \in 1..Len(fetched) :
          LET sib == SiblingsOf(fetched[p])
          IN  \E i \in 1..Len(sib) :
                  /\ sib[i][2] <= RootCompleteTime
                  /\ \E k \in 1..(p - 1) : fetched[k] = sib[i][1]

-----------------------------------------------------------------------------
(* Termination of the collection *)

\* the identifiers of the run: the one main was started with and every
\* physical id a stack-type event of the provider carries
Identifiers ==
    {arg} \cup
    {e.PhysicalResourceId :
        e \in {x \in UNION {Range(provider[n].events) : n \in StackNames} :
                  x.ResourceType = StackType /\ x.PhysicalResourceId # ""}}

RECURSIVE PendingTotal(_)
PendingTotal(fs) ==
    IF fs = <<>> THEN 0 ELSE Len(fs[Len(fs)].pending) + PendingTotal(Front(fs))

\* what is left to do: identifiers not yet visited, weighted so that one of them
\* outweighs the loop entries a new call brings, then loop entries and
\* active calls
Measure ==
    Cardinality(Identifiers \ processed_stacks) * (Cardinality(Identifiers) + 2)
    + PendingTotal(frames) + Len(frames)

\* a running collection with these active calls and this visited set has a
\* step to take: its innermost call returns, passes over a nested stack, or
\* calls for one
CanStep(fs, processed) ==
    /\ fs # <<>>
    /\ LET top == fs[Len(fs)]
       IN  \/ top.pending = <<>>
           \/ ~(top.pending[1][1] # "" /\ top.pending[1][2] <= top.complete_time)
           \/ Enter(provider, top.pending[1][1], top.complete_time, processed).kind
                \in {"seen", "raise", "frame"}

\* C17: the collection terminates: every step of the running collection
\* lowers a measure that is a natural number, and the collection can take a
\* step until it has returned; the number of fetches never exceeds the number
\* of distinct identifiers.
C17_Terminates ==
    [][/\ pc = "collect" => (Measure' < Measure /\ Measure' >= 0)
       /\ pc' = "collect" => CanStep(frames', processed_stacks')
       /\ Len(fetched') <= Cardinality(Identifiers)]_vars

\* the collection has returned on a graph in which two nested stacks announce
\* each other, and both were fetched
C17_Witness ==
    /\ pc = "returned"
    /\ \E x, y \in Range(fetched) :
          /\ Resolve(x) # Resolve(y)
          /\ "R" \notin {Resolve(x), Resolve(y)}
          /\ \E i \in 1..Len(SiblingsOf(x)) : SiblingsOf(x)[i][1] = y
          /\ \E i \in 1..Len(SiblingsOf(y)) : SiblingsOf(y)[i][1] = x

-----------------------------------------------------------------------------
(* The creation window *)

\* the stack's own start events and own completion events in a stream
OwnStarts(raw) == {e \in Range(raw) : IsStartEvent(e)}

OwnCompletions(raw) == {e \in Range(raw) : IsOwnCompletion(e)}

Earliest(es) == CHOOSE t \in {e.Timestamp : e \in es} :
                    \A e \in es : t <= e.Timestamp

\* what C18 says of one fetch
WindowHolds(id) ==
    LET raw == FetchAll(provider, id)
        got == get_stack_creation_events(id, raw)
    IN  IF OwnStarts(raw) = {} \/ OwnCompletions(raw) = {}
        THEN got = [events |-> <<>>, nested |-> <<>>, complete_time |-> None]
        ELSE LET lo == Earliest(OwnStarts(raw))
                 hi == Earliest(OwnCompletions(raw))
             IN  /\ \A k \in 1..Len(got.events) : InWindow(got.events[k], lo, hi)
                 /\ \A k \in 1..Len(got.nested) :
                       \E e \in Range(raw) :
                           /\ IsNestedStackEvent(e, id)
                           /\ e.PhysicalResourceId = got.nested[k][1]
                           /\ e.Timestamp = got.nested[k][2]
                           /\ InWindow(e, lo, hi)

\* C18: for every stack fetched, the events get_stack_creation_events returns
\* lie between the stack's own 'User Initiated' start event and its own
\* CREATE_COMPLETE event, every nested stack it reports comes from an event in
\* that window, and without a start or a complete event it returns nothing.
C18_CreationWindow ==
    \A k \in 1..Len(fetched) :
        ~FetchRaises(provider, fetched[k]) => WindowHolds(fetched[k])

-----------------------------------------------------------------------------
(* Traces *)

\* C19: no two traces are for the same (stack, resource) pair, and no trace
\* is for a pair of a stack-type event whose resource id is its stack's name.
C19_OneTracePerPair ==
    /\ \A i, j \in 1..Len(traces) : traces[i].y = traces[j].y => i = j
    /\ \A k \in 1..Len(traces) :
          \A e \in Range(events) :
              PairOf(e) = traces[k].y => ~IsRootSelfReference(e)

\* the figure is built from a list with two CREATE_COMPLETE events of a pair
\* that has its trace, and with a CREATE_COMPLETE event of the root for
\* itself, whose record has a duration
C19_Witness ==
    /\ pc = "display"
    /\ \E i, j \in 1..Len(events) :
          /\ i # j
          /\ PairOf(events[i]) = PairOf(events[j])
          /\ events[i].ResourceStatus = CREATE_COMPLETE
          /\ events[j].ResourceStatus = CREATE_COMPLETE
          /\ \E k \in 1..Len(traces) : traces[k].y = PairOf(events[i])
    /\ \E e \in Range(events) :
          /\ IsRootSelfReference(e)
          /\ TraceEligible(e, data)

-----------------------------------------------------------------------------
(* The root and its own events *)

\* C20: the root stack is fetched at most once, under whichever identifier,
\* and each of its events is once in the list the collection returns.
C20_RootFetchedOnce ==
    /\ Cardinality({k \in 1..Len(fetched) : Resolve(fetched[k]) = Resolve(arg)}) <= 1
    /\ pc = "returned" =>
          \A e \in Range(events) :
              e.StackName = Resolve(arg) => Occurrences(events, e) = 1

====
